---- MODULE Spec2Model ----
(***************************************************************************)
(* Model of NostraDataParser                                               *)
(* (src/apps/data_handler/handler_tools/data_parser/nostra.py).            *)
(*                                                                         *)
(* The parser is a class without attributes whose methods build one record *)
(* each from fixed positions of a caller-owned list.  The model keeps the  *)
(* caller's list, the parser instance's attribute dictionary and the last  *)
(* two calls (method, arguments as passed, outcome).                       *)
(*                                                                         *)
(* The model starts from a constructed parser: the class body has been     *)
(* executed and an instance exists.  (Lines 20 and 91 annotate with List,  *)
(* which the module does not import; an interpreter that evaluates         *)
(* annotations when the methods are defined raises NameError in the class  *)
(* body, and then there is no parser and no call to speak of.)             *)
(***************************************************************************)
EXTENDS Integers, Sequences, FiniteSets, TLC

\* Longest event list a caller passes.
MaxLen == 9

\* Decoded log values: opaque hexadecimal strings.
Values == {"0xa", "0xb"}

Inputs == UNION {[1..n -> Values] : n \in 0..MaxLen}

\* Placeholder in a call record for a method without a from_address parameter.
NoAddress == "-"

Implemented ==
    {"parse_interest_rate_model_event",
     "parse_interest_bearing_collateral_mint_event",
     "parse_interest_bearing_collateral_burn_event",
     "parse_debt_transfer_event",
     "parse_debt_mint_event",
     "parse_debt_burn_event"}

Unimplemented ==
    {"parse_non_interest_bearing_collateral_mint_event",
     "parse_non_interest_bearing_collateral_burn_event"}

Methods == Implemented \cup Unimplemented

-----------------------------------------------------------------------------
(* Python values and outcomes *)

\* Getitem with a default in place of the exception (dict.get style).
Getitem_default(seq, i) ==
    IF i < Len(seq)
    THEN [raised |-> FALSE, val |-> seq[i + 1]]
    ELSE [raised |-> FALSE, val |-> "None"]

\* seq[i] of a Python list for a constant index i >= 0: the element, or IndexError.
Getitem(seq, i) ==
    IF i < Len(seq)
    THEN [raised |-> FALSE, val |-> seq[i + 1]]
    ELSE [raised |-> TRUE, val |-> "IndexError"]

\* A call that ends by returning a value / by raising an exception.
Return(value) == [kind |-> "return", value |-> value]
Raise(exc) == [kind |-> "raise", value |-> [type |-> exc, fields |-> <<>>]]

\* Python's None.
None == [type |-> "NoneType", fields |-> <<>>]

\* No call yet.
NoCall ==
    [method |-> "none", event_data |-> <<>>, from_address |-> NoAddress,
     outcome |-> Return(None)]

-----------------------------------------------------------------------------
(* The record types of data_parser.serializers: plain records that store   *)
(* the keyword arguments they are given under the same names.              *)

InterestRateModelEventData(debt_token, lending_index, borrow_index) ==
    [type |-> "InterestRateModelEventData",
     fields |-> [debt_token |-> debt_token, lending_index |-> lending_index,
                 borrow_index |-> borrow_index]]

BearingCollateralMintEventData(user, amount) ==
    [type |-> "BearingCollateralMintEventData",
     fields |-> [user |-> user, amount |-> amount]]

BearingCollateralBurnEventData(user, amount) ==
    [type |-> "BearingCollateralBurnEventData",
     fields |-> [user |-> user, amount |-> amount]]

DebtTransferEventData(sender, recipient, amount, token) ==
    [type |-> "DebtTransferEventData",
     fields |-> [sender |-> sender, recipient |-> recipient, amount |-> amount,
                 token |-> token]]

DebtMintEventData(user, token) ==
    [type |-> "DebtMintEventData", fields |-> [user |-> user, token |-> token]]

DebtBurnEventData(user, amount) ==
    [type |-> "DebtBurnEventData", fields |-> [user |-> user, amount |-> amount]]

-----------------------------------------------------------------------------
(* The methods, as functions from their arguments to their outcome.  The   *)
(* keyword arguments are evaluated left to right; the first subscript out  *)
(* of range raises and the constructor is not called.                      *)

\* The indexes taken for the rates of the documented layout (1 and 3).
parse_interest_rate_model_event_rates(event_data) ==
    LET debt_token == Getitem(event_data, 0)
        lending_index == Getitem(event_data, 1)
        borrow_index == Getitem(event_data, 3)
    IN  IF debt_token.raised THEN Raise(debt_token.val)
        ELSE IF lending_index.raised THEN Raise(lending_index.val)
        ELSE IF borrow_index.raised THEN Raise(borrow_index.val)
        ELSE Return(InterestRateModelEventData(debt_token.val, lending_index.val,
                                               borrow_index.val))

\* The borrow index taken from the ninth element of the documented layout.
parse_interest_rate_model_event_nine(event_data) ==
    LET debt_token == Getitem(event_data, 0)
        lending_index == Getitem(event_data, 5)
        borrow_index == Getitem(event_data, 8)
    IN  IF debt_token.raised THEN Raise(debt_token.val)
        ELSE IF lending_index.raised THEN Raise(lending_index.val)
        ELSE IF borrow_index.raised THEN Raise(borrow_index.val)
        ELSE Return(InterestRateModelEventData(debt_token.val, lending_index.val,
                                               borrow_index.val))

parse_interest_rate_model_event(event_data) ==
    LET debt_token == Getitem(event_data, 0)
        lending_index == Getitem(event_data, 5)
        borrow_index == Getitem(event_data, 7)
    IN  IF debt_token.raised THEN Raise(debt_token.val)
        ELSE IF lending_index.raised THEN Raise(lending_index.val)
        ELSE IF borrow_index.raised THEN Raise(borrow_index.val)
        ELSE Return(InterestRateModelEventData(debt_token.val, lending_index.val,
                                               borrow_index.val))

parse_non_interest_bearing_collateral_mint_event == Return(None)

parse_non_interest_bearing_collateral_burn_event == Return(None)

parse_interest_bearing_collateral_mint_event(event_data) ==
    LET user == Getitem(event_data, 0)
        amount == Getitem(event_data, 1)
    IN  IF user.raised THEN Raise(user.val)
        ELSE IF amount.raised THEN Raise(amount.val)
        ELSE Return(BearingCollateralMintEventData(user.val, amount.val))

\* The burn method left with the mint method's record type.
parse_interest_bearing_collateral_burn_event_mint_type(event_data) ==
    LET user == Getitem(event_data, 0)
        amount == Getitem(event_data, 1)
    IN  IF user.raised THEN Raise(user.val)
        ELSE IF amount.raised THEN Raise(amount.val)
        ELSE Return(BearingCollateralMintEventData(user.val, amount.val))

parse_interest_bearing_collateral_burn_event(event_data) ==
    LET user == Getitem(event_data, 0)
        amount == Getitem(event_data, 1)
    IN  IF user.raised THEN Raise(user.val)
        ELSE IF amount.raised THEN Raise(amount.val)
        ELSE Return(BearingCollateralBurnEventData(user.val, amount.val))

\* The token taken from the fourth element of the payload.
parse_debt_transfer_event_payload_token(event_data, from_address) ==
    LET sender == Getitem(event_data, 0)
        recipient == Getitem(event_data, 1)
        amount == Getitem(event_data, 2)
        token == Getitem(event_data, 3)
    IN  IF sender.raised THEN Raise(sender.val)
        ELSE IF recipient.raised THEN Raise(recipient.val)
        ELSE IF amount.raised THEN Raise(amount.val)
        ELSE IF token.raised THEN Raise(token.val)
        ELSE Return(DebtTransferEventData(sender.val, recipient.val, amount.val,
                                          token.val))

parse_debt_transfer_event(event_data, from_address) ==
    LET sender == Getitem(event_data, 0)
        recipient == Getitem(event_data, 1)
        amount == Getitem(event_data, 2)
    IN  IF sender.raised THEN Raise(sender.val)
        ELSE IF recipient.raised THEN Raise(recipient.val)
        ELSE IF amount.raised THEN Raise(amount.val)
        ELSE Return(DebtTransferEventData(sender.val, recipient.val, amount.val,
                                          from_address))

\* The second element stored as amount, as the docstring has it.
parse_debt_mint_event_amount(event_data) ==
    LET user == Getitem(event_data, 0)
        amount == Getitem(event_data, 1)
    IN  IF user.raised THEN Raise(user.val)
        ELSE IF amount.raised THEN Raise(amount.val)
        ELSE Return([type |-> "DebtMintEventData",
                     fields |-> [user |-> user.val, amount |-> amount.val]])

parse_debt_mint_event(event_data) ==
    LET user == Getitem(event_data, 0)
        token == Getitem(event_data, 1)
    IN  IF user.raised THEN Raise(user.val)
        ELSE IF token.raised THEN Raise(token.val)
        ELSE Return(DebtMintEventData(user.val, token.val))

\* The two elements exchanged.
parse_debt_burn_event_swapped(event_data) ==
    LET user == Getitem(event_data, 1)
        amount == Getitem(event_data, 0)
    IN  IF user.raised THEN Raise(user.val)
        ELSE IF amount.raised THEN Raise(amount.val)
        ELSE Return(DebtBurnEventData(user.val, amount.val))

parse_debt_burn_event(event_data) ==
    LET user == Getitem(event_data, 0)
        amount == Getitem(event_data, 1)
    IN  IF user.raised THEN Raise(user.val)
        ELSE IF amount.raised THEN Raise(amount.val)
        ELSE Return(DebtBurnEventData(user.val, amount.val))

-----------------------------------------------------------------------------
(* State *)

VARIABLES
    event_data,   \* the caller's list, passed by reference to every call
    attrs,        \* the parser instance's attributes (its __dict__)
    prev,         \* the call before the last one
    last,         \* the last call: method, arguments as passed, outcome
    frames        \* per thread: the call it is executing or has finished

vars == <<event_data, attrs, prev, last, frames>>

Threads == {"t1", "t2"}

\* A thread that has made no call.
Idle ==
    [pc |-> "idle", method |-> "none", event_data |-> <<>>, passed |-> <<>>,
     from_address |-> NoAddress, outcome |-> Return(None)]

Init ==
    /\ event_data \in Inputs
    /\ attrs = {}
    /\ prev = NoCall
    /\ last = NoCall
    /\ frames = [t \in Threads |-> Idle]

\* A body that takes the elements off the caller's list (event_data.pop(0)).
Completes_consuming(method, from_address, outcome) ==
    /\ prev' = last
    /\ last' = [method |-> method, event_data |-> event_data,
                from_address |-> from_address, outcome |-> outcome]
    /\ event_data' = IF event_data = <<>> THEN event_data ELSE Tail(event_data)
    /\ UNCHANGED <<attrs, frames>>

\* A method call completes: the body assigns no attribute of the instance and
\* calls no mutating method of the list, so only the caller's view changes.
Completes(method, from_address, outcome) ==
    /\ prev' = last
    /\ last' = [method |-> method, event_data |-> event_data,
                from_address |-> from_address, outcome |-> outcome]
    /\ UNCHANGED <<event_data, attrs, frames>>

InterestRateModelEvent ==
    Completes("parse_interest_rate_model_event", NoAddress,
              parse_interest_rate_model_event(event_data))

NonInterestBearingCollateralMintEvent ==
    Completes("parse_non_interest_bearing_collateral_mint_event", NoAddress,
              parse_non_interest_bearing_collateral_mint_event)

NonInterestBearingCollateralBurnEvent ==
    Completes("parse_non_interest_bearing_collateral_burn_event", NoAddress,
              parse_non_interest_bearing_collateral_burn_event)

InterestBearingCollateralMintEvent ==
    Completes("parse_interest_bearing_collateral_mint_event", NoAddress,
              parse_interest_bearing_collateral_mint_event(event_data))

InterestBearingCollateralBurnEvent ==
    Completes("parse_interest_bearing_collateral_burn_event", NoAddress,
              parse_interest_bearing_collateral_burn_event(event_data))

DebtTransferEvent ==
    \E from_address \in Values :
        Completes("parse_debt_transfer_event", from_address,
                  parse_debt_transfer_event(event_data, from_address))

DebtMintEvent ==
    Completes("parse_debt_mint_event", NoAddress, parse_debt_mint_event(event_data))

DebtBurnEvent ==
    Completes("parse_debt_burn_event", NoAddress, parse_debt_burn_event(event_data))

Next ==
    \/ InterestRateModelEvent
    \/ NonInterestBearingCollateralMintEvent
    \/ NonInterestBearingCollateralBurnEvent
    \/ InterestBearingCollateralMintEvent
    \/ InterestBearingCollateralBurnEvent
    \/ DebtTransferEvent
    \/ DebtMintEvent
    \/ DebtBurnEvent

Spec == Init /\ [][Next]_vars

-----------------------------------------------------------------------------
(* The caller changes its list between two calls: one element assigned,    *)
(* one appended or the last one removed.  One change, after the first call.*)

SetItem(i, v) == event_data' = [event_data EXCEPT ![i + 1] = v]

Append_(v) == Len(event_data) < MaxLen /\ event_data' = Append(event_data, v)

Pop == Len(event_data) > 0 /\ event_data' = SubSeq(event_data, 1, Len(event_data) - 1)

CallerEdits ==
    /\ last # NoCall
    /\ prev = NoCall
    /\ event_data = last.event_data
    /\ \/ \E i \in 0..(Len(event_data) - 1), v \in Values : SetItem(i, v)
       \/ \E v \in Values : Append_(v)
       \/ Pop
    /\ UNCHANGED <<attrs, prev, last, frames>>

\* The caller repeats the method of its last call.
Repeats == prev' # NoCall => prev'.method = last'.method

NextEdit ==
    \/ Next /\ Repeats
    \/ CallerEdits

SpecEdit == Init /\ [][NextEdit]_vars

-----------------------------------------------------------------------------
(* Several threads call methods of the one parser, each with a list of its *)
(* own.  A call is two steps: the arguments are bound to a new frame, then *)
(* the body runs and the frame ends with the outcome.                      *)

\* The lists the threads pass: every length, one value at the odd places and
\* one at the even places.
ThreadInputs ==
    {[i \in 1..n |-> IF i % 2 = 1 THEN v ELSE w] :
        n \in 0..MaxLen, v \in Values, w \in Values}

\* The method's outcome on the arguments bound in a frame.
Dispatch(method, data, from_address) ==
    CASE method = "parse_interest_rate_model_event" ->
            parse_interest_rate_model_event(data)
      [] method = "parse_non_interest_bearing_collateral_mint_event" ->
            parse_non_interest_bearing_collateral_mint_event
      [] method = "parse_non_interest_bearing_collateral_burn_event" ->
            parse_non_interest_bearing_collateral_burn_event
      [] method = "parse_interest_bearing_collateral_mint_event" ->
            parse_interest_bearing_collateral_mint_event(data)
      [] method = "parse_interest_bearing_collateral_burn_event" ->
            parse_interest_bearing_collateral_burn_event(data)
      [] method = "parse_debt_transfer_event" ->
            parse_debt_transfer_event(data, from_address)
      [] method = "parse_debt_mint_event" -> parse_debt_mint_event(data)
      [] method = "parse_debt_burn_event" -> parse_debt_burn_event(data)

\* The frame of a call: arguments bound, body not yet run.
Frame(method, data, from_address) ==
    [pc |-> "body", method |-> method, event_data |-> data, passed |-> data,
     from_address |-> from_address, outcome |-> Return(None)]

ThreadCalls(t) ==
    /\ frames[t].pc = "idle"
    /\ \/ \E method \in Unimplemented :
             frames' = [frames EXCEPT ![t] = Frame(method, <<>>, NoAddress)]
       \/ \E method \in Implemented \ {"parse_debt_transfer_event"},
               data \in ThreadInputs :
             frames' = [frames EXCEPT ![t] = Frame(method, data, NoAddress)]
       \/ \E data \in ThreadInputs, from_address \in Values :
             frames' = [frames EXCEPT ![t] =
                           Frame("parse_debt_transfer_event", data, from_address)]
    /\ UNCHANGED <<event_data, attrs, prev, last>>

\* A body that keeps its first result on the instance and returns it from then on.
ThreadBody_cached(t) ==
    /\ frames[t].pc = "body"
    /\ LET computed == Dispatch(frames[t].method, frames[t].event_data,
                                frames[t].from_address)
           result == IF attrs = {} THEN computed ELSE CHOOSE o \in attrs : TRUE
       IN  /\ frames' = [frames EXCEPT ![t].pc = "done", ![t].outcome = result]
           /\ attrs' = {result}
    /\ UNCHANGED <<event_data, prev, last>>

\* The body reads its own frame only and writes neither the instance nor the list.
ThreadBody(t) ==
    /\ frames[t].pc = "body"
    /\ frames' = [frames EXCEPT ![t].pc = "done",
                                ![t].outcome =
                                    Dispatch(frames[t].method, frames[t].event_data,
                                             frames[t].from_address)]
    /\ UNCHANGED <<event_data, attrs, prev, last>>

\* The thread has used the outcome and is ready for its next call.
ThreadResumes(t) ==
    /\ frames[t].pc = "done"
    /\ frames' = [frames EXCEPT ![t] = Idle]
    /\ UNCHANGED <<event_data, attrs, prev, last>>

InitThreads ==
    /\ event_data = <<>>
    /\ attrs = {}
    /\ prev = NoCall
    /\ last = NoCall
    /\ frames = [t \in Threads |-> Idle]

NextThreads == \E t \in Threads : ThreadCalls(t) \/ ThreadBody(t) \/ ThreadResumes(t)

SpecThreads == InitThreads /\ [][NextThreads]_vars

-----------------------------------------------------------------------------
(* Properties *)

\* The shortest list each implemented method accepts, and the 0-based places
\* it reads, as the specification states them.
MinLen(method) ==
    CASE method = "parse_interest_rate_model_event" -> 8
      [] method = "parse_debt_transfer_event" -> 3
      [] OTHER -> 2

ReadPlaces(method) ==
    CASE method = "parse_interest_rate_model_event" -> {0, 5, 7}
      [] method = "parse_debt_transfer_event" -> {0, 1, 2}
      [] OTHER -> {0, 1}

Returned(call) == call.outcome.kind = "return"
Fields(call) == call.outcome.value.fields
TypeOf(call) == call.outcome.value.type

\* C1: for every list of 9 or more elements, parse_interest_rate_model_event
\* returns a record with debt_token = input[0], lending_index = input[5] and
\* borrow_index = input[7].
C1_InterestRateModelFields ==
    (last.method = "parse_interest_rate_model_event" /\ Len(last.event_data) >= 9)
    => /\ Returned(last)
       /\ TypeOf(last) = "InterestRateModelEventData"
       /\ Fields(last).debt_token = last.event_data[1]
       /\ Fields(last).lending_index = last.event_data[6]
       /\ Fields(last).borrow_index = last.event_data[8]

C1_Witness ==
    /\ last.method = "parse_interest_rate_model_event"
    /\ Len(last.event_data) >= 9
    /\ Returned(last)
    /\ last.event_data[6] # last.event_data[8]
    /\ last.event_data[6] # last.event_data[2]
    /\ last.event_data[8] # last.event_data[4]

\* C2 as stated: for every list of 3 or more elements and every from_address,
\* parse_debt_transfer_event returns sender = fields[0], recipient = fields[1],
\* amount = fields[2], token = from_address, and token never equals fields[3]
\* when fields[3] is present.
C2_TokenNeverEqualsFourthField ==
    (last.method = "parse_debt_transfer_event" /\ Len(last.event_data) >= 3)
    => /\ Returned(last)
       /\ Fields(last).sender = last.event_data[1]
       /\ Fields(last).recipient = last.event_data[2]
       /\ Fields(last).amount = last.event_data[3]
       /\ Fields(last).token = last.from_address
       /\ Len(last.event_data) >= 4 => Fields(last).token # last.event_data[4]

\* C2 as amended: for every list of 3 or more elements and every from_address,
\* parse_debt_transfer_event returns sender = fields[0], recipient = fields[1],
\* amount = fields[2] and token = from_address, whatever fields[3] is; token
\* differs from fields[3] whenever from_address does.
C2_TokenFromAddress ==
    (last.method = "parse_debt_transfer_event" /\ Len(last.event_data) >= 3)
    => /\ Returned(last)
       /\ TypeOf(last) = "DebtTransferEventData"
       /\ Fields(last).sender = last.event_data[1]
       /\ Fields(last).recipient = last.event_data[2]
       /\ Fields(last).amount = last.event_data[3]
       /\ Fields(last).token = last.from_address
       /\ (Len(last.event_data) >= 4 /\ last.from_address # last.event_data[4])
          => Fields(last).token # last.event_data[4]

C2_Witness ==
    /\ last.method = "parse_debt_transfer_event"
    /\ Len(last.event_data) >= 4
    /\ Returned(last)
    /\ last.from_address # last.event_data[4]
    /\ last.event_data[1] # last.event_data[2]

\* C3: calling either unimplemented method ends in a "not implemented" failure;
\* it never returns normally.
C3_NotImplementedFailure ==
    last.method \in Unimplemented
    => /\ last.outcome.kind = "raise"
       /\ TypeOf(last) = "NotImplementedError"

\* C4: for every implemented method and every list shorter than the method's
\* minimum length (8, 3, 2, 2, 2, 2), the call fails with an out-of-range error
\* and returns no record.
C4_ShortInputOutOfRange ==
    (last.method \in Implemented /\ Len(last.event_data) < MinLen(last.method))
    => /\ last.outcome.kind = "raise"
       /\ TypeOf(last) = "IndexError"
       /\ Fields(last) = <<>>

C4_Witness ==
    /\ last.method = "parse_interest_rate_model_event"
    /\ Len(last.event_data) = 7
    /\ last.outcome.kind = "raise"
    /\ prev.method = "parse_debt_transfer_event"
    /\ prev.outcome.kind = "return"

\* C5: an implemented method called twice in succession with the same
\* arguments gives the same outcome both times, and the first call leaves
\* neither the instance nor the list changed.
C5_Idempotent ==
    (/\ prev.method = last.method
     /\ last.method \in Implemented
     /\ prev.from_address = last.from_address)
    => /\ prev.outcome = last.outcome
       /\ prev.event_data = last.event_data
       /\ event_data = last.event_data
       /\ attrs = {}

C5_Witness ==
    /\ prev.method = "parse_debt_transfer_event"
    /\ last.method = "parse_debt_transfer_event"
    /\ prev.from_address = last.from_address
    /\ Returned(prev)
    /\ Returned(last)

\* C6: for every list of 2 or more elements, parse_debt_burn_event returns a
\* DebtBurnEventData with user = fields[0] and amount = fields[1].
C6_DebtBurnFields ==
    (last.method = "parse_debt_burn_event" /\ Len(last.event_data) >= 2)
    => /\ Returned(last)
       /\ TypeOf(last) = "DebtBurnEventData"
       /\ Fields(last).user = last.event_data[1]
       /\ Fields(last).amount = last.event_data[2]

C6_Witness ==
    /\ last.method = "parse_debt_burn_event"
    /\ Len(last.event_data) = 2
    /\ Returned(last)
    /\ last.event_data[1] # last.event_data[2]

AloneRecord(method, data, from_address) ==
    CASE method = "parse_interest_rate_model_event" ->
            [type |-> "InterestRateModelEventData",
             fields |-> [debt_token |-> data[1], lending_index |-> data[6],
                         borrow_index |-> data[8]]]
      [] method = "parse_interest_bearing_collateral_mint_event" ->
            [type |-> "BearingCollateralMintEventData",
             fields |-> [user |-> data[1], amount |-> data[2]]]
      [] method = "parse_interest_bearing_collateral_burn_event" ->
            [type |-> "BearingCollateralBurnEventData",
             fields |-> [user |-> data[1], amount |-> data[2]]]
      [] method = "parse_debt_transfer_event" ->
            [type |-> "DebtTransferEventData",
             fields |-> [sender |-> data[1], recipient |-> data[2],
                         amount |-> data[3], token |-> from_address]]
      [] method = "parse_debt_mint_event" ->
            [type |-> "DebtMintEventData",
             fields |-> [user |-> data[1], token |-> data[2]]]
      [] method = "parse_debt_burn_event" ->
            [type |-> "DebtBurnEventData",
             fields |-> [user |-> data[1], amount |-> data[2]]]

Alone(method, data, from_address) ==
    IF method \in Unimplemented THEN [kind |-> "return", value |-> None]
    ELSE IF Len(data) < MinLen(method)
    THEN [kind |-> "raise", value |-> [type |-> "IndexError", fields |-> <<>>]]
    ELSE [kind |-> "return", value |-> AloneRecord(method, data, from_address)]

\* C9: in every interleaving of calls made by several threads on the one
\* parser, each finished call has the outcome it has when run alone on its own
\* arguments; no call writes the instance or changes the list it was passed.
C9_CallsIndependent ==
    /\ attrs = {}
    /\ \A t \in Threads :
          /\ frames[t].event_data = frames[t].passed
          /\ frames[t].pc = "done"
             => frames[t].outcome =
                    Alone(frames[t].method, frames[t].passed, frames[t].from_address)

C9_Witness ==
    /\ frames["t1"].pc = "done"
    /\ frames["t2"].pc = "done"
    /\ frames["t1"].method = "parse_debt_transfer_event"
    /\ frames["t2"].method = "parse_interest_rate_model_event"
    /\ frames["t1"].outcome.kind = "return"
    /\ frames["t2"].outcome.kind = "return"
    /\ frames["t1"].passed[1] # frames["t2"].passed[1]

\* C10: every implemented method succeeds on every list of at least its
\* minimum length (8 for parse_interest_rate_model_event), and two calls of one
\* method on lists that agree at the places read (and on from_address) give
\* equal records, whatever the other elements and the lengths.
C10_ReadPlacesOnly ==
    /\ (last.method \in Implemented /\ Len(last.event_data) >= MinLen(last.method))
       => Returned(last)
    /\ (/\ prev.method = last.method
        /\ last.method \in Implemented
        /\ Len(prev.event_data) >= MinLen(last.method)
        /\ Len(last.event_data) >= MinLen(last.method)
        /\ \A i \in ReadPlaces(last.method) :
              prev.event_data[i + 1] = last.event_data[i + 1]
        /\ prev.from_address = last.from_address)
       => /\ Returned(prev)
          /\ prev.outcome = last.outcome

C10_Witness ==
    /\ prev.method = "parse_interest_rate_model_event"
    /\ last.method = "parse_interest_rate_model_event"
    /\ Len(prev.event_data) = 8
    /\ Len(last.event_data) = 9
    /\ Returned(prev)
    /\ prev.outcome = last.outcome

====
